---- MODULE Spec2Model ----
(***************************************************************************)
(* Model of server.js: an express API over four SQLite tables (posts,      *)
(* media, reactions, comments) and an upload directory.                    *)
(*                                                                         *)
(* Every handler is an async function: it runs synchronously up to its     *)
(* first await, and every awaited store statement is one step that other   *)
(* requests' statements may be interleaved with.  A request therefore      *)
(* occupies a slot and moves through the positions (pc) of its handler.    *)
(* Every store statement may be rejected by the store, which sends the     *)
(* handler to its catch block (status 500).                                *)
(*                                                                         *)
(* Columns no handler ever reads back into a decision (author, text body   *)
(* and community of a post, mime of a media row, created_at of reactions   *)
(* and comments) are left out of the rows.                                 *)
(***************************************************************************)
EXTENDS Integers, Sequences, FiniteSets, TLC

(* posts, media, reactions, comments: the rows of the four tables          *)
(* uploads:  the names of the files in UPLOAD_DIR                          *)
(* now:      Date.now()                                                    *)
(* nextPost: the post ids uuidv4() has given out are 1..nextPost-1; a post *)
(*           id is never given out twice                                   *)
(* reqs:     the request each slot holds: its handler (op), the statement  *)
(*           it awaits (pc), its path id, its locals (loc), and once it    *)
(*           has answered (pc = "done") its status and response            *)
(* deleted:  history: the ids whose delete-post has answered success       *)
VARIABLES posts, media, reactions, comments, uploads, now, nextPost, reqs, deleted

tables == <<posts, media, reactions, comments, uploads>>
vars == <<posts, media, reactions, comments, uploads, now, nextPost, reqs, deleted>>

(* ------------------------------ bounds --------------------------------- *)
(* Spec: posts ever created, files of one request, rows of each table *)
MaxPosts == 1
MaxUpload == 1
MaxReactions == 2
MaxComments == 1
(* SpecFeed *)
FeedMaxPosts == 2
FeedMaxReactions == 2
FeedMaxComments == 1
MaxNow == 1
(* SpecConc *)
ConcMaxPosts == 1
ConcMaxComments == 1
ConcMaxReactions == 1

(* -------------------------- program constants -------------------------- *)
DefaultPage == 1
DefaultLimit == 8
LimitCap == 50
MinPage == 1

Absent == "<absent>"
ProtoKey == "__proto__"
Slots == {"a", "b"}
SeqSlots == {"a"}

Idle == [op |-> "idle", pc |-> "done", status |-> 0, id |-> 0,
         loc |-> <<>>, resp |-> <<>>]

(* ----------------------------- store views ----------------------------- *)
PostIds == {p.id : p \in posts}
PostRow(id) == {p \in posts : p.id = id}
MediaOf(id) == {m \in media : m.post_id = id}
ReactionsOf(id) == {r \in reactions : r.post_id = id}
CommentsOf(id) == {c \in comments : c.post_id = id}
(* the ids requests name in their path: every id a create-post has drawn,  *)
(* whether its Post row is there, was deleted, or was never inserted       *)
Allocated == 1..(nextPost - 1)

Min2(a, b) == IF a < b THEN a ELSE b
Max2(a, b) == IF a > b THEN a ELSE b

(* `x = default` of a destructuring pattern: only an absent field defaults *)
Default(v, d) == IF v = Absent THEN d ELSE v

(* parseInt(req.query.x || 'd') for a query value that is absent or the    *)
(* decimal text of an integer: every non-empty string is truthy, "0" too   *)
(* (a query value is <<>> when absent, <<n>> when it is the text of n)      *)
ParseIntOr(v, d) == IF v = <<>> THEN d ELSE v[1]

PageOf(v) == Max2(MinPage, ParseIntOr(v, DefaultPage))
LimitOf(v) == Min2(LimitCap, ParseIntOr(v, DefaultLimit))

(* SELECT ... ORDER BY created_at DESC: any order of the rows that is      *)
(* non-increasing in created_at (ties in an order the store chooses)       *)
Orderings(rows) ==
    LET n == Cardinality(rows)
    IN {s \in [1..n -> rows] :
           /\ \A i, j \in 1..n : i # j => s[i] # s[j]
           /\ \A i, j \in 1..n : i < j => s[i].created_at >= s[j].created_at}

(* LIMIT ? OFFSET ? of SQLite: a negative OFFSET counts as 0, a negative   *)
(* LIMIT as no limit                                                       *)
Window(s, limit, offset) ==
    LET off == Max2(0, offset)
        last == IF limit < 0 THEN Len(s) ELSE Min2(Len(s), off + limit)
    IN SubSeq(s, off + 1, last)

Url(filename) == <<"/uploads/", filename>>

MediaList(id) == {[url |-> Url(m.filename)] : m \in MediaOf(id)}

(* SELECT type, COUNT of rows ... GROUP BY type *)
ReactionGroups(id) ==
    [t \in {r.type : r \in ReactionsOf(id)} |->
        Cardinality({r \in ReactionsOf(id) : r.type = t})]

(* reactionObj = {}; reactionObj[type] = cnt : an assignment to the key    *)
(* "__proto__" of an object literal reaches the prototype setter, which    *)
(* ignores a number, so that key never becomes a property                  *)
ReactionObj(groups) == [t \in (DOMAIN groups) \ {ProtoKey} |-> groups[t]]

Aggregate(p) ==
    [id |-> p.id, created_at |-> p.created_at,
     media |-> MediaList(p.id),
     reactions |-> ReactionObj(ReactionGroups(p.id)),
     comments_count |-> Cardinality(CommentsOf(p.id))]

Init ==
    /\ posts = {} /\ media = {} /\ reactions = {} /\ comments = {}
    /\ uploads = {}
    /\ now = 0
    /\ nextPost = 1
    /\ reqs = [s \in Slots |-> Idle]
    /\ deleted = {}

Free(s) == reqs[s].pc = "done"
At(s, op, pc) == reqs[s].op = op /\ reqs[s].pc = pc

Finish(s, status, error, resp) ==
    reqs' = [reqs EXCEPT ![s] = [@ EXCEPT !.pc = "done", !.status = status,
                                          !.resp = [error |-> error, body |-> resp]]]

(* uuidv4(): an id that no row of the table holds.  Ids are opaque and no  *)
(* handler reads one back, so the id is written as the pair of the post    *)
(* and the first number free among that post's rows.                       *)
FreshId(rows, post) ==
    LET used == {r.id[2] : r \in {x \in rows : x.post_id = post}}
    IN <<post, CHOOSE n \in 1..(Cardinality(used) + 1) :
                  n \notin used /\ \A m \in 1..(n - 1) : m \in used>>

(* multer's filename: Date.now() + "_" + uuidv4() + ext, a name no other   *)
(* upload has; written as the pair of the request's post and the position  *)
(* of the file in the request                                              *)
FreshName(post, i) == <<post, i>>

Goto(s, pc, loc) ==
    reqs' = [reqs EXCEPT ![s] = [@ EXCEPT !.pc = pc, !.loc = loc]]

NewReq(op, id, pc, loc) ==
    [op |-> op, pc |-> pc, status |-> 0, id |-> id, loc |-> loc, resp |-> <<>>]

(* a DELETE whose WHERE clause names the row's own id: it matches no row *)
WithoutPost_Keep(rows, id) == rows

(* DELETE FROM t WHERE post_id = ? *)
WithoutPost(rows, id) == {r \in rows : r.post_id # id}

(* an INSERT that a uniqueness constraint over the other columns turns     *)
(* into a no-op when a row equal in all but its id is there                *)
InsertRow_Dedup(rows, row) ==
    IF \E r \in rows : [r EXCEPT !.id = row.id] = row THEN rows ELSE rows \cup {row}

(* INSERT INTO t (...) VALUES (...) *)
InsertRow(rows, row) == rows \cup {row}

(* the media row written with the name the client gave the file, which is  *)
(* not the name multer stored it under                                     *)
MediaRow_OriginalName(post, name) ==
    [id |-> name, post_id |-> post, filename |-> <<0, name[2]>>]

(* [uuidv4(), id, f.filename, f.mimetype] *)
MediaRow(post, name) == [id |-> name, post_id |-> post, filename |-> name]

(* Date.now() advances *)
Tick ==
    /\ now < MaxNow
    /\ now' = now + 1
    /\ UNCHANGED <<tables, nextPost, reqs, deleted>>

(* ------------------- POST /api/posts (create post) --------------------- *)
(* multer has stored the k uploaded files under fresh names before the     *)
(* handler runs; the handler draws the id and the timestamp and issues     *)
(* the INSERT                                                              *)
CreatePostStart(s, k) ==
    /\ Free(s)
    /\ LET names == [i \in 1..k |-> FreshName(nextPost, i)]
       IN /\ uploads' = uploads \cup {names[i] : i \in 1..k}
          /\ reqs' = [reqs EXCEPT ![s] =
                 NewReq("create", nextPost, "insert_post",
                        [now |-> now, files |-> names, i |-> 1])]
    /\ nextPost' = nextPost + 1
    /\ UNCHANGED <<posts, media, reactions, comments, now, deleted>>

CreateInsertPost(s) ==
    /\ At(s, "create", "insert_post")
    /\ \E ok \in BOOLEAN :
         IF ok
         THEN /\ posts' = InsertRow(posts, [id |-> reqs[s].id,
                                              created_at |-> reqs[s].loc.now])
              /\ Goto(s, IF Len(reqs[s].loc.files) = 0 THEN "select" ELSE "insert_media",
                      reqs[s].loc)
         ELSE /\ Finish(s, 500, "store error", <<>>)
              /\ UNCHANGED posts
    /\ UNCHANGED <<media, reactions, comments, uploads, now, nextPost, deleted>>

CreateInsertMedia(s) ==
    /\ At(s, "create", "insert_media")
    /\ LET l == reqs[s].loc
       IN \E ok \in BOOLEAN :
            IF ok
            THEN /\ media' = InsertRow(media, MediaRow(reqs[s].id, l.files[l.i]))
                 /\ Goto(s, IF l.i = Len(l.files) THEN "select" ELSE "insert_media",
                         [l EXCEPT !.i = l.i + 1])
            ELSE /\ Finish(s, 500, "store error", <<>>)
                 /\ UNCHANGED media
    /\ UNCHANGED <<posts, reactions, comments, uploads, now, nextPost, deleted>>

CreateSelect(s) ==
    /\ At(s, "create", "select")
    /\ \E ok \in BOOLEAN :
         IF ok
         THEN Finish(s, 200, "", [post |-> PostRow(reqs[s].id)])
         ELSE Finish(s, 500, "store error", <<>>)
    /\ UNCHANGED <<tables, now, nextPost, deleted>>

(* ------------------ DELETE /api/posts/:id (delete post) ---------------- *)
DeletePostStart(s, id) ==
    /\ Free(s)
    /\ reqs' = [reqs EXCEPT ![s] = NewReq("delete", id, "select_media", [media |-> {}])]
    /\ UNCHANGED <<tables, now, nextPost, deleted>>

(* the media rows read, the files left on disk *)
DeleteSelectMedia_NoUnlink(s) ==
    /\ At(s, "delete", "select_media")
    /\ \E ok \in BOOLEAN :
         IF ok
         THEN Goto(s, "delete_media", [media |-> {m.filename : m \in MediaOf(reqs[s].id)}])
         ELSE Finish(s, 500, "store error", <<>>)
    /\ UNCHANGED <<tables, now, nextPost, deleted>>

(* SELECT filename FROM media, then existsSync/unlinkSync of each file *)
DeleteSelectMedia(s) ==
    /\ At(s, "delete", "select_media")
    /\ \E ok \in BOOLEAN :
         IF ok
         THEN LET names == {m.filename : m \in MediaOf(reqs[s].id)}
              IN /\ uploads' = uploads \ names
                 /\ Goto(s, "delete_media", [media |-> names])
         ELSE /\ Finish(s, 500, "store error", <<>>)
              /\ UNCHANGED uploads
    /\ UNCHANGED <<posts, media, reactions, comments, now, nextPost, deleted>>

DeleteMediaRows(s) ==
    /\ At(s, "delete", "delete_media")
    /\ \E ok \in BOOLEAN :
         IF ok
         THEN /\ media' = WithoutPost(media, reqs[s].id)
              /\ Goto(s, "delete_reactions", reqs[s].loc)
         ELSE /\ Finish(s, 500, "store error", <<>>)
              /\ UNCHANGED media
    /\ UNCHANGED <<posts, reactions, comments, uploads, now, nextPost, deleted>>

DeleteReactionRows(s) ==
    /\ At(s, "delete", "delete_reactions")
    /\ \E ok \in BOOLEAN :
         IF ok
         THEN /\ reactions' = WithoutPost(reactions, reqs[s].id)
              /\ Goto(s, "delete_comments", reqs[s].loc)
         ELSE /\ Finish(s, 500, "store error", <<>>)
              /\ UNCHANGED reactions
    /\ UNCHANGED <<posts, media, comments, uploads, now, nextPost, deleted>>

(* a rejected DELETE FROM comments that is swallowed: the handler goes on  *)
(* to the next statement                                                   *)
DeleteCommentRows_IgnoreError(s) ==
    /\ At(s, "delete", "delete_comments")
    /\ \E ok \in BOOLEAN :
         /\ comments' = IF ok THEN WithoutPost(comments, reqs[s].id) ELSE comments
         /\ Goto(s, "delete_post", reqs[s].loc)
    /\ UNCHANGED <<posts, media, reactions, uploads, now, nextPost, deleted>>

DeleteCommentRows(s) ==
    /\ At(s, "delete", "delete_comments")
    /\ \E ok \in BOOLEAN :
         IF ok
         THEN /\ comments' = WithoutPost(comments, reqs[s].id)
              /\ Goto(s, "delete_post", reqs[s].loc)
         ELSE /\ Finish(s, 500, "store error", <<>>)
              /\ UNCHANGED comments
    /\ UNCHANGED <<posts, media, reactions, uploads, now, nextPost, deleted>>

(* the posts row deleted under a store-level ON DELETE CASCADE that takes  *)
(* the post's comments with it                                             *)
DeletePostRow_Cascade(s) ==
    /\ At(s, "delete", "delete_post")
    /\ \E ok \in BOOLEAN :
         IF ok
         THEN /\ posts' = posts \ PostRow(reqs[s].id)
              /\ comments' = WithoutPost(comments, reqs[s].id)
              /\ deleted' = deleted \cup {reqs[s].id}
              /\ Finish(s, 200, "", <<>>)
         ELSE /\ Finish(s, 500, "store error", <<>>)
              /\ UNCHANGED <<posts, comments, deleted>>
    /\ UNCHANGED <<media, reactions, uploads, now, nextPost>>

(* DELETE FROM posts WHERE id = ?, then res.json({success: true}) *)
DeletePostRow(s) ==
    /\ At(s, "delete", "delete_post")
    /\ \E ok \in BOOLEAN :
         IF ok
         THEN /\ posts' = posts \ PostRow(reqs[s].id)
              /\ deleted' = deleted \cup {reqs[s].id}
              /\ Finish(s, 200, "", <<>>)
         ELSE /\ Finish(s, 500, "store error", <<>>)
              /\ UNCHANGED <<posts, deleted>>
    /\ UNCHANGED <<media, reactions, comments, uploads, now, nextPost>>

(* ------------- POST /api/posts/:id/reactions (add reaction) ------------ *)
AddReactionStart(s, id, type, user) ==
    /\ Free(s)
    /\ reqs' = [reqs EXCEPT ![s] =
           NewReq("reaction", id, "insert",
                  [type |-> Default(type, "like"), user |-> Default(user, "anonymous")])]
    /\ UNCHANGED <<tables, now, nextPost, deleted>>

AddReactionInsert(s) ==
    /\ At(s, "reaction", "insert")
    /\ \E ok \in BOOLEAN :
         IF ok
         THEN /\ reactions' = InsertRow(reactions,
                    [id |-> FreshId(reactions, reqs[s].id), post_id |-> reqs[s].id,
                     type |-> reqs[s].loc.type, user |-> reqs[s].loc.user])
              /\ Finish(s, 200, "", [id |-> FreshId(reactions, reqs[s].id)])
         ELSE /\ Finish(s, 500, "store error", <<>>)
              /\ UNCHANGED reactions
    /\ UNCHANGED <<posts, media, comments, uploads, now, nextPost, deleted>>

(* -------------- POST /api/posts/:id/comments (add comment) ------------- *)
(* the handler without its `if (!text)` line *)
AddCommentStart_NoCheck(s, id, user, text) ==
    /\ Free(s)
    /\ reqs' = [reqs EXCEPT ![s] =
           NewReq("comment", id, "insert",
                  [user |-> Default(user, "anonymous"), text |-> Default(text, "")])]
    /\ UNCHANGED <<tables, now, nextPost, deleted>>

AddCommentStart(s, id, user, text) ==
    /\ Free(s)
    /\ LET t == Default(text, "")
           r == NewReq("comment", id, "insert",
                       [user |-> Default(user, "anonymous"), text |-> t])
       IN IF t = ""
          THEN reqs' = [reqs EXCEPT ![s] =
                   [r EXCEPT !.pc = "done", !.status = 400,
                             !.resp = [error |-> "Texto vazio", body |-> <<>>]]]
          ELSE reqs' = [reqs EXCEPT ![s] = r]
    /\ UNCHANGED <<tables, now, nextPost, deleted>>

AddCommentInsert(s) ==
    /\ At(s, "comment", "insert")
    /\ \E ok \in BOOLEAN :
         IF ok
         THEN /\ comments' = InsertRow(comments,
                    [id |-> FreshId(comments, reqs[s].id), post_id |-> reqs[s].id,
                     user |-> reqs[s].loc.user, text |-> reqs[s].loc.text])
              /\ Finish(s, 200, "", [id |-> FreshId(comments, reqs[s].id)])
         ELSE /\ Finish(s, 500, "store error", <<>>)
              /\ UNCHANGED comments
    /\ UNCHANGED <<posts, media, reactions, uploads, now, nextPost, deleted>>

(* ------------------- GET /api/posts/:id (get one post) ----------------- *)
GetPostStart(s, id) ==
    /\ Free(s)
    /\ reqs' = [reqs EXCEPT ![s] = NewReq("get", id, "select_post", [post |-> {}])]
    /\ UNCHANGED <<tables, now, nextPost, deleted>>

GetSelectPost(s) ==
    /\ At(s, "get", "select_post")
    /\ \E ok \in BOOLEAN :
         IF ok
         THEN IF PostRow(reqs[s].id) = {}
              THEN Finish(s, 404, "not found", <<>>)
              ELSE Goto(s, "select_media", [post |-> PostRow(reqs[s].id)])
         ELSE Finish(s, 500, "store error", <<>>)
    /\ UNCHANGED <<tables, now, nextPost, deleted>>

GetSelectMedia(s) ==
    /\ At(s, "get", "select_media")
    /\ \E ok \in BOOLEAN :
         IF ok
         THEN Finish(s, 200, "", [post |-> reqs[s].loc.post, media |-> MediaList(reqs[s].id)])
         ELSE Finish(s, 500, "store error", <<>>)
    /\ UNCHANGED <<tables, now, nextPost, deleted>>

(* --------------------- GET /api/posts (list posts) --------------------- *)
ListPostsStart(s, page, limit) ==
    /\ Free(s)
    /\ LET pg == PageOf(page)
           lm == LimitOf(limit)
       IN reqs' = [reqs EXCEPT ![s] =
              NewReq("list", 0, "select_rows",
                     [page |-> pg, limit |-> lm, offset |-> (pg - 1) * lm,
                      query |-> [page |-> page, limit |-> limit], rows |-> <<>>])]
    /\ UNCHANGED <<tables, now, nextPost, deleted>>

ListSelectRows(s) ==
    /\ At(s, "list", "select_rows")
    /\ LET l == reqs[s].loc
       IN \E ok \in BOOLEAN :
            IF ok
            THEN \E ord \in Orderings(posts) :
                   Goto(s, "aggregate", [l EXCEPT !.rows = Window(ord, l.limit, l.offset)])
            ELSE Finish(s, 500, "store error", <<>>)
    /\ UNCHANGED <<tables, now, nextPost, deleted>>

(* the per-post lookups of Promise.all, taken together as one step *)
ListAggregate(s) ==
    /\ At(s, "list", "aggregate")
    /\ LET l == reqs[s].loc
       IN \E ok \in BOOLEAN :
            IF ok
            THEN Finish(s, 200, "",
                        [page |-> l.page, limit |-> l.limit,
                         posts |-> [i \in 1..Len(l.rows) |-> Aggregate(l.rows[i])]])
            ELSE Finish(s, 500, "store error", <<>>)
    /\ UNCHANGED <<tables, now, nextPost, deleted>>

(* ------------------------------ inputs --------------------------------- *)
PageInputs == {<<>>, <<0>>, <<2>>}
LimitInputs == {<<>>, <<-1>>, <<0>>, <<1>>, <<51>>}
TypeInputs == {Absent, "wow", ProtoKey}
UserInputs == {Absent}
TextInputs == {Absent, "", "nice"}

Step(s) ==
    \/ CreateInsertPost(s) \/ CreateInsertMedia(s) \/ CreateSelect(s)
    \/ DeleteSelectMedia(s) \/ DeleteMediaRows(s) \/ DeleteReactionRows(s)
    \/ DeleteCommentRows(s) \/ DeletePostRow(s)
    \/ AddReactionInsert(s) \/ AddCommentInsert(s)
    \/ GetSelectPost(s) \/ GetSelectMedia(s)
    \/ ListSelectRows(s) \/ ListAggregate(s)

(* The tables are capped so that the state space is finite: a request that *)
(* would insert into a full table is not started.                          *)
RoomFor(rows, max) == Cardinality(rows) < max

(* one request at a time: every request completes before the next starts.  *)
(* No claim checked here reads created_at, and the clock stands still.     *)
Next ==
    \E s \in SeqSlots :
       \/ \E k \in 0..MaxUpload : nextPost <= MaxPosts /\ CreatePostStart(s, k)
       \/ \E id \in Allocated : DeletePostStart(s, id)
       \/ \E id \in Allocated, user \in UserInputs :
            RoomFor(reactions, MaxReactions) /\ AddReactionStart(s, id, Absent, user)
       \/ \E id \in Allocated, user \in UserInputs, text \in TextInputs :
            /\ Default(text, "") = "" \/ RoomFor(comments, MaxComments)
            /\ AddCommentStart(s, id, user, text)
       \/ \E id \in Allocated : GetPostStart(s, id)
       \/ ListPostsStart(s, <<>>, <<>>)
       \/ Step(s)

Spec == Init /\ [][Next]_vars

(* one request at a time, the clock running, the feed queried with every   *)
(* page and limit and reactions of every type                              *)
NextFeed ==
    \/ Tick
    \/ \E s \in SeqSlots :
         \/ nextPost <= FeedMaxPosts /\ CreatePostStart(s, 0)
         \/ \E id \in Allocated : DeletePostStart(s, id)
         \/ \E id \in Allocated, type \in TypeInputs, user \in UserInputs :
              RoomFor(reactions, FeedMaxReactions) /\ AddReactionStart(s, id, type, user)
         \/ \E id \in Allocated, user \in UserInputs :
              RoomFor(comments, FeedMaxComments) /\ AddCommentStart(s, id, user, "nice")
         \/ \E page \in PageInputs, limit \in LimitInputs : ListPostsStart(s, page, limit)
         \/ CreateInsertPost(s) \/ CreateSelect(s)
         \/ DeleteSelectMedia(s) \/ DeleteMediaRows(s) \/ DeleteReactionRows(s)
         \/ DeleteCommentRows(s) \/ DeletePostRow(s)
         \/ AddReactionInsert(s) \/ AddCommentInsert(s)
         \/ ListSelectRows(s) \/ ListAggregate(s)

SpecFeed == Init /\ [][NextFeed]_vars

(* create-post, delete-post, add-comment and add-reaction requests in      *)
(* flight together, their store statements interleaved at the await points *)
NextConc ==
    \E s \in Slots :
       \/ nextPost <= ConcMaxPosts /\ CreatePostStart(s, 0)
       \/ \E id \in Allocated : DeletePostStart(s, id)
       \/ \E id \in Allocated, user \in UserInputs :
            RoomFor(comments, ConcMaxComments) /\ AddCommentStart(s, id, user, "nice")
       \/ \E id \in Allocated, user \in UserInputs :
            RoomFor(reactions, ConcMaxReactions) /\ AddReactionStart(s, id, Absent, user)
       \/ CreateInsertPost(s) \/ CreateSelect(s)
       \/ DeleteSelectMedia(s) \/ DeleteMediaRows(s) \/ DeleteReactionRows(s)
       \/ DeleteCommentRows(s) \/ DeletePostRow(s)
       \/ AddCommentInsert(s) \/ AddReactionInsert(s)

SpecConc == Init /\ [][NextConc]_vars

(* ------------------------------- claims -------------------------------- *)
Done(s, op, status) ==
    reqs[s].op = op /\ reqs[s].pc = "done" /\ reqs[s].status = status

Dependents(P) == MediaOf(P) \cup ReactionsOf(P) \cup CommentsOf(P)

(* C1: once a delete-post for P has returned success, with one request at  *)
(* a time, there is no Post row P, no Media, Reaction or Comment row of P,  *)
(* none of the files P's media rows named is in the upload directory; and   *)
(* from then on no list-posts response holds P and no get-post for P gets   *)
(* past the 404.                                                            *)
C1_DeleteRemovesEverything ==
    /\ \A s \in Slots : Done(s, "delete", 200) =>
          /\ reqs[s].id \notin PostIds
          /\ Dependents(reqs[s].id) = {}
          /\ reqs[s].loc.media \cap uploads = {}
    /\ \A P \in deleted :
          /\ P \notin PostIds
          /\ \A s \in Slots :
                /\ Done(s, "list", 200) =>
                      \A i \in 1..Len(reqs[s].resp.body.posts) :
                         reqs[s].resp.body.posts[i].id # P
                /\ (reqs[s].op = "get" /\ reqs[s].id = P) =>
                      /\ reqs[s].pc # "select_media"
                      /\ reqs[s].pc = "done" => reqs[s].status \in {404, 500}
                /\ Done(s, "get", 404) =>
                      reqs[s].resp = [error |-> "not found", body |-> <<>>]

C1_Witness ==
    \E s \in Slots : Done(s, "delete", 200) /\ reqs[s].loc.media # {}

(* C2 as claimed: between requests, every Media, Reaction and Comment row   *)
(* has the post_id of a Post row that exists.                               *)
C2_EveryRowReferencesAPost ==
    (\A s \in Slots : Free(s)) =>
        \A r \in media \cup reactions \cup comments : r.post_id \in PostIds

(* C2 amended: every Media row has the post_id of a Post row that exists,   *)
(* and no step takes a Post row away from under a Reaction or Comment row:  *)
(* a Reaction or Comment row whose Post row is missing was inserted for an  *)
(* id that had no Post row, which add-reaction and add-comment never check. *)
C2_DanglingOnlyByInsert ==
    /\ [](\A m \in media : m.post_id \in PostIds)
    /\ [][\A r \in reactions' \cup comments' :
             r.post_id \in PostIds => r.post_id \in PostIds']_vars

C2_Witness ==
    /\ \A s \in Slots : Free(s)
    /\ \E P \in deleted : ReactionsOf(P) # {} \/ CommentsOf(P) # {}

(* C3: the limit list-posts uses and echoes lies in 1..50 for every integer *)
(* limit parameter, is 8 when the parameter is absent and 50 when it is     *)
(* above 50, and the page returned holds at most that many posts.           *)
C3_LimitWithinRange ==
    \A s \in Slots : reqs[s].op = "list" =>
        LET l == reqs[s].loc
        IN /\ l.limit \in 1..LimitCap
           /\ l.query.limit = <<>> => l.limit = DefaultLimit
           /\ (l.query.limit # <<>> /\ l.query.limit[1] > LimitCap) => l.limit = LimitCap
           /\ Len(l.rows) <= l.limit
           /\ reqs[s].status = 200 =>
                 /\ reqs[s].resp.body.limit = l.limit
                 /\ Len(reqs[s].resp.body.posts) <= l.limit

(* C4: an add-comment whose text is empty or absent ends at once with 400   *)
(* and "Texto vazio", and the step leaves every table and the upload        *)
(* directory as they were.                                                  *)
C4_EmptyCommentWritesNothing ==
    [][\A s \in Slots :
          (reqs'[s] # reqs[s] /\ reqs'[s].op = "comment" /\ reqs'[s].loc.text = "") =>
             /\ reqs'[s].pc = "done"
             /\ reqs'[s].status = 400
             /\ reqs'[s].resp = [error |-> "Texto vazio", body |-> <<>>]
             /\ UNCHANGED tables]_vars

C4_Witness ==
    \E s \in Slots : /\ Done(s, "comment", 400)
                     /\ reqs[s].loc.text = ""
                     /\ CommentsOf(reqs[s].id) # {}

(* C5: in a list-posts response, the reactions mapping of a post has as     *)
(* keys exactly the types with at least one Reaction row of the post, each  *)
(* mapped to the number of those rows, and comments_count is the number of  *)
(* its Comment rows.                                                        *)
C5_ReactionsMapping ==
    \A s \in Slots : Done(s, "list", 200) =>
        \A i \in 1..Len(reqs[s].resp.body.posts) :
           LET a == reqs[s].resp.body.posts[i]
           IN /\ DOMAIN a.reactions = {r.type : r \in ReactionsOf(a.id)}
              /\ \A t \in DOMAIN a.reactions :
                    /\ a.reactions[t] = Cardinality({r \in ReactionsOf(a.id) : r.type = t})
                    /\ a.reactions[t] >= 1
              /\ a.comments_count = Cardinality(CommentsOf(a.id))

(* the post ranked k by created_at descending, when created_at is distinct *)
Ranked(k) ==
    CHOOSE p \in posts : Cardinality({q \in posts : q.created_at > p.created_at}) = k - 1

(* C6: with N posts of distinct created_at, list-posts with page p (below   *)
(* 1 read as 1) and limit l returns the posts ranked (p-1)*l+1 through      *)
(* min(p*l, N) by created_at descending, in that order, and none when       *)
(* (p-1)*l >= N.                                                            *)
C6_PageIsRankWindow ==
    \A s \in Slots :
       (/\ Done(s, "list", 200)
        /\ \A x, y \in posts : x # y => x.created_at # y.created_at) =>
          LET q == reqs[s].loc.query.page
              p == IF q = <<>> \/ q[1] < 1 THEN 1 ELSE q[1]
              l == reqs[s].loc.limit
              N == Cardinality(posts)
              lo == (p - 1) * l + 1
              hi == Min2(p * l, N)
              got == reqs[s].resp.body.posts
          IN IF (p - 1) * l >= N \/ hi < lo
             THEN got = <<>>
             ELSE /\ Len(got) = hi - lo + 1
                  /\ \A j \in 1..Len(got) : got[j].id = Ranked(lo + j - 1).id

(* C7: a create-post with k files that has returned success has left one    *)
(* Post row with its id and k Media rows with that post_id, one for each    *)
(* stored file, each file in the upload directory; a get-post for the id    *)
(* then finds the post and a media list of k entries.                       *)
C7_CreateLeavesPostAndMedia ==
    \A s \in Slots : Done(s, "create", 200) =>
        LET P == reqs[s].id
            names == reqs[s].loc.files
        IN /\ Cardinality(PostRow(P)) = 1
           /\ reqs[s].resp.body.post = PostRow(P)
           /\ Cardinality(MediaOf(P)) = Len(names)
           /\ {m.filename : m \in MediaOf(P)} = {names[i] : i \in 1..Len(names)}
           /\ \A m \in MediaOf(P) : m.filename \in uploads
           /\ Cardinality(MediaList(P)) = Len(names)
           /\ MediaList(P) = {[url |-> Url(names[i])] : i \in 1..Len(names)}

C7_Witness ==
    \E s \in Slots : Done(s, "create", 200) /\ Len(reqs[s].loc.files) = MaxUpload

(* C8: a successful add-reaction adds exactly one Reaction row, of its      *)
(* post, type and user, whatever rows are there already, so the number of   *)
(* rows of that type on that post rises by one; and a Reaction or Comment   *)
(* row of post P leaves its table, or changes, only in the step of a        *)
(* delete-post of P that deletes that table's rows.                         *)
C8_AppendOnly ==
    [][/\ \A s \in Slots :
            (At(s, "reaction", "insert") /\ reqs'[s].status = 200) =>
               LET P == reqs[s].id
                   t == reqs[s].loc.type
               IN /\ reactions \subseteq reactions'
                  /\ Cardinality(reactions') = Cardinality(reactions) + 1
                  /\ \A r \in reactions' \ reactions :
                        r.post_id = P /\ r.type = t /\ r.user = reqs[s].loc.user
                  /\ Cardinality({r \in reactions' : r.post_id = P /\ r.type = t})
                        = Cardinality({r \in reactions : r.post_id = P /\ r.type = t}) + 1
       /\ \A r \in reactions \ reactions' :
            \E s \in Slots : /\ At(s, "delete", "delete_reactions")
                             /\ reqs[s].id = r.post_id
                             /\ reqs'[s] # reqs[s]
       /\ \A c \in comments \ comments' :
            \E s \in Slots : /\ At(s, "delete", "delete_comments")
                             /\ reqs[s].id = c.post_id
                             /\ reqs'[s] # reqs[s]]_vars

C8_Witness ==
    \E s \in Slots :
       /\ Done(s, "reaction", 200)
       /\ \E r1, r2 \in ReactionsOf(reqs[s].id) :
             r1 # r2 /\ r1.type = r2.type /\ r1.user = r2.user

(* C9: when an add-comment on P has returned success, its row in the table  *)
(* and the Post row P there, while a delete-post of P stands between its    *)
(* DELETE FROM comments and its DELETE FROM posts, the delete's last        *)
(* statement, if the store accepts it, returns success too and leaves that  *)
(* Comment row with no Post row P.                                          *)
C9_RaceLeavesOrphan ==
    [][\A d, a \in Slots :
          (/\ At(d, "delete", "delete_post")
           /\ Done(a, "comment", 200)
           /\ reqs[a].id = reqs[d].id
           /\ reqs[d].id \in PostIds
           /\ reqs'[d].status = 200) =>
              /\ CommentsOf(reqs[d].id) \subseteq comments'
              /\ reqs[d].id \notin PostIds'
              /\ reqs'[a] = reqs[a]]_vars

C9_Witness ==
    \E d, a \in Slots :
       /\ At(d, "delete", "delete_post")
       /\ Done(a, "comment", 200)
       /\ reqs[a].id = reqs[d].id
       /\ CommentsOf(reqs[d].id) # {}
       /\ reqs[d].id \in PostIds

(* C10: with one request at a time, a delete-post of P removes the files,   *)
(* then the Media rows, then the Reaction rows, then the Comment rows, then *)
(* the Post row; a rejected statement ends the request with 500, changes    *)
(* nothing and undoes nothing; the Post row goes only in a step that        *)
(* returns success, and when it goes no Media, Reaction or Comment row of P *)
(* is left.                                                                 *)
C10_DeleteOrderNoRollback ==
    [][\A s \in Slots :
          (reqs[s].op = "delete" /\ reqs[s].pc # "done" /\ reqs'[s] # reqs[s]) =>
             LET P == reqs[s].id
             IN /\ uploads' # uploads => reqs[s].pc = "select_media"
                /\ media' # media =>
                      /\ reqs[s].pc = "delete_media"
                      /\ \A m \in MediaOf(P) : m.filename \notin uploads
                /\ reactions' # reactions =>
                      reqs[s].pc = "delete_reactions" /\ MediaOf(P) = {}
                /\ comments' # comments =>
                      reqs[s].pc = "delete_comments" /\ ReactionsOf(P) = {}
                /\ posts' # posts =>
                      /\ reqs[s].pc = "delete_post" /\ CommentsOf(P) = {}
                      /\ reqs'[s].status = 200
                /\ reqs'[s].status = 500 =>
                      /\ reqs'[s].pc = "done"
                      /\ UNCHANGED tables
                /\ (P \in PostIds /\ P \notin PostIds') =>
                      MediaOf(P)' = {} /\ ReactionsOf(P)' = {} /\ CommentsOf(P)' = {}]_vars

C10_Witness ==
    \E s \in Slots :
       /\ Done(s, "delete", 500)
       /\ reqs[s].id \in PostIds
       /\ reqs[s].loc.media # {}
       /\ MediaOf(reqs[s].id) = {}
       /\ reqs[s].loc.media \cap uploads = {}
====
